---------------------------- MODULE Spec2Model ----------------------------
(***************************************************************************)
(* Model of the @venmail/vsm webhook SDK (src/scripts/build-cjs.js, lines  *)
(* 41-392 hold the TypeScript source of the library).                      *)
(*                                                                         *)
(* Strings are sequences of code points, Buffers are sequences of bytes    *)
(* (0..255).  JavaScript's undefined/null is the model value Undefined.    *)
(* A call of an exported function yields either [kind |-> "return", ...]   *)
(* or [kind |-> "throw", ...].                                             *)
(***************************************************************************)
EXTENDS Integers, Sequences, FiniteSets, TLC

VARIABLES
    opts,       \* options the middleware was built with
    req,        \* req[r]: the request object handed to the middleware
    pc,         \* pc[r]: position of the async request handler
    hstate,     \* hstate[r]: state of the promise returned by onEvent
    calls,      \* calls[r]: the events onEvent has been invoked with
    writes,     \* writes[r]: the responses written to res, in order
    nexts,      \* nexts[r]: the arguments next() has been called with
    libArgs,    \* arguments of a direct call of an exported function
    libResult   \* its outcome

vars == <<opts, req, pc, hstate, calls, writes, nexts, libArgs, libResult>>

mwVars == <<opts, req, pc, hstate, calls, writes, nexts>>

libVars == <<libArgs, libResult>>

-----------------------------------------------------------------------------
(* Bounds *)

\* bytes of a digest (SHA-256 has 32; the comparison logic is the same)
DigestLen == 2

\* requests in flight at the same middleware instance
NumReqs == 1

\* responses onEvent may write for one request
MaxHandlerWrites == 1

\* requests one middleware handles at a time
NumConcurrent == 2

-----------------------------------------------------------------------------
(* Values *)

Undefined == [type |-> "undefined"]

Str(s) == [type |-> "string", val |-> s]

Buf(b) == [type |-> "Buffer", val |-> b]

IsString(v) == v.type = "string"

IsBuffer(v) == v.type = "Buffer"

\* !v for the values a string-typed argument can take
Falsy(v) == v.type \in {"undefined", "null"} \/ (v.type = "string" /\ v.val = <<>>)

Return(v) == [kind |-> "return", value |-> v]

Throw(e) == [kind |-> "throw", error |-> e]

RECURSIVE Concat(_)
Concat(ss) == IF ss = <<>> THEN <<>> ELSE Head(ss) \o Concat(Tail(ss))

\* Buffer.from(s, "utf8"): code points below 0x80 take one byte, below 0x800
\* two bytes, the others of the basic plane three.
Utf8Char(c) ==
    IF c < 128 THEN <<c>>
    ELSE IF c < 2048 THEN <<192 + (c \div 64), 128 + (c % 64)>>
    ELSE <<224 + (c \div 4096), 128 + ((c \div 64) % 64), 128 + (c % 64)>>

Utf8(s) == Concat([i \in 1..Len(s) |-> Utf8Char(s[i])])

\* digest("hex"): two lower-case hex digits per byte
HexDigit(n) == IF n < 10 THEN 48 + n ELSE 87 + n

HexEncode(b) == Concat([i \in 1..Len(b) |-> <<HexDigit(b[i] \div 16), HexDigit(b[i] % 16)>>])

\* value of a hex digit, -1 for any other character; both cases are digits
HexVal(c) ==
    IF c >= 48 /\ c <= 57 THEN c - 48
    ELSE IF c >= 97 /\ c <= 102 THEN c - 87
    ELSE IF c >= 65 /\ c <= 70 THEN c - 55
    ELSE -1

\* Buffer.from(s, "hex"): decodes pairs of digits and stops, without an
\* error, at the first pair that is not two hex digits; an odd last
\* character is dropped.
RECURSIVE HexDecodeFrom(_, _)
HexDecodeFrom(s, i) ==
    IF i + 1 > Len(s) THEN <<>>
    ELSE IF HexVal(s[i]) < 0 \/ HexVal(s[i + 1]) < 0 THEN <<>>
    ELSE <<16 * HexVal(s[i]) + HexVal(s[i + 1])>> \o HexDecodeFrom(s, i + 2)

HexDecode(s) == HexDecodeFrom(s, 1)

\* crypto.createHmac("sha256", key).update(msg).digest(): a keyed digest of
\* DigestLen bytes.  The stand-in mixes every byte of key and message.
RECURSIVE Mix(_, _)
Mix(h, b) == IF b = <<>> THEN h ELSE Mix((h * 31 + Head(b) + 1) % 65521, Tail(b))

Hmac(key, msg) ==
    LET h == Mix(Mix(Mix(7, key), <<255>>), msg)
    IN  [i \in 1..DigestLen |-> ((h + 197 * i) * (2 * i + 165) + (h \div 251)) % 256]

\* crypto.timingSafeEqual(a, b): a RangeError when the lengths differ
timingSafeEqual(a, b) ==
    IF Len(a) # Len(b) THEN Throw("RangeError") ELSE Return(a = b)

-----------------------------------------------------------------------------
(* verifyVenmailSignature, verifySharedSecretHeader *)

\* BodyBytes without the UTF-8 encoding of a string rawBody
BodyBytes_NoUtf8(rawBody) == rawBody.val

\* the bytes hashed: a string rawBody is encoded as UTF-8
BodyBytes(rawBody) == IF IsString(rawBody) THEN Utf8(rawBody.val) ELSE rawBody.val

\* digest(encoding) and Buffer.from(_, encoding); the model covers "hex"
Encode(b, encoding) == CASE encoding = "hex" -> HexEncode(b)

Decode(s, encoding) == CASE encoding = "hex" -> HexDecode(s)

\* verifyVenmailSignature testing the signature before the secret
verifyVenmailSignature_SignatureFirst(secret, signature, rawBody, encoding) ==
    IF Falsy(signature) THEN Return(FALSE)
    ELSE IF Falsy(secret) THEN Throw("Venmail signature validation requires a secret")
    ELSE LET computed == Encode(Hmac(Utf8(secret.val), BodyBytes(rawBody)), encoding)
             cmp      == timingSafeEqual(Decode(signature.val, encoding),
                                         Decode(computed, encoding))
         IN  IF cmp.kind = "throw" THEN Return(FALSE) ELSE cmp

\* verifyVenmailSignature without the test of the signature and without the
\* try around the comparison
verifyVenmailSignature_Unguarded(secret, signature, rawBody, encoding) ==
    IF Falsy(secret) THEN Throw("Venmail signature validation requires a secret")
    ELSE LET computed == Encode(Hmac(Utf8(secret.val), BodyBytes(rawBody)), encoding)
         IN  timingSafeEqual(IF signature.type = "string"
                                THEN Decode(signature.val, encoding) ELSE <<>>,
                             Decode(computed, encoding))

verifyVenmailSignature(secret, signature, rawBody, encoding) ==
    IF Falsy(secret) THEN Throw("Venmail signature validation requires a secret")
    ELSE IF Falsy(signature) THEN Return(FALSE)
    ELSE LET computed == Encode(Hmac(Utf8(secret.val), BodyBytes(rawBody)), encoding)
             cmp      == timingSafeEqual(Decode(signature.val, encoding),
                                         Decode(computed, encoding))
         IN  IF cmp.kind = "throw" THEN Return(FALSE) ELSE cmp

\* verifySharedSecretHeader without the try around the comparison
verifySharedSecretHeader_NoCatch(secret, provided) ==
    IF Falsy(secret) THEN Throw("Missing expected secret for header validation")
    ELSE IF Falsy(provided) THEN Return(FALSE)
    ELSE timingSafeEqual(Utf8(secret.val), Utf8(provided.val))

verifySharedSecretHeader(secret, provided) ==
    IF Falsy(secret) THEN Throw("Missing expected secret for header validation")
    ELSE IF Falsy(provided) THEN Return(FALSE)
    ELSE LET cmp == timingSafeEqual(Utf8(secret.val), Utf8(provided.val))
         IN  IF cmp.kind = "throw" THEN Return(FALSE) ELSE cmp

-----------------------------------------------------------------------------
(* JSON.parse, JSON.stringify and Buffer.toString("utf8") on the subset of  *)
(* JSON the requests of the model use: null, one-digit numbers, strings     *)
(* without escapes, objects; white space between tokens.                    *)

JNull == [type |-> "null"]

JNum(n) == [type |-> "number", val |-> n]

\* an object is the sequence of its <<key, value>> members, in insertion order
JObj(members) == [type |-> "object", val |-> members]

IsWs(c) == c \in {32, 9, 10, 13}

RECURSIVE SkipWs(_, _)
SkipWs(s, i) == IF i <= Len(s) /\ IsWs(s[i]) THEN SkipWs(s, i + 1) ELSE i

\* index of the next double quote at or after i, 0 when there is none
RECURSIVE FindQuote(_, _)
FindQuote(s, i) ==
    IF i > Len(s) THEN 0 ELSE IF s[i] = 34 THEN i ELSE FindQuote(s, i + 1)

Fail == [ok |-> FALSE]

Parsed(v, n) == [ok |-> TRUE, val |-> v, next |-> n]

\* a string token starting at i
ParseString(s, i) ==
    IF i > Len(s) \/ s[i] # 34 THEN Fail
    ELSE LET q == FindQuote(s, i + 1)
         IN  IF q = 0 THEN Fail ELSE Parsed(SubSeq(s, i + 1, q - 1), q + 1)

RECURSIVE ParseValue(_, _)
RECURSIVE ParseMembers(_, _, _)

\* the members of an object after "{" or ","; i is at the key
ParseMembers(s, i, acc) ==
    LET k == ParseString(s, i)
    IN  IF ~k.ok THEN Fail
        ELSE LET c == SkipWs(s, k.next)
             IN  IF c > Len(s) \/ s[c] # 58 THEN Fail
                 ELSE LET v == ParseValue(s, SkipWs(s, c + 1))
                      IN  IF ~v.ok THEN Fail
                          ELSE LET e    == SkipWs(s, v.next)
                                   more == Append(acc, <<k.val, v.val>>)
                               IN  IF e > Len(s) THEN Fail
                                   ELSE IF s[e] = 125 THEN Parsed(JObj(more), e + 1)
                                   ELSE IF s[e] = 44
                                        THEN ParseMembers(s, SkipWs(s, e + 1), more)
                                   ELSE Fail

ParseValue(s, i) ==
    IF i > Len(s) THEN Fail
    ELSE IF s[i] = 34 THEN
        LET t == ParseString(s, i) IN IF t.ok THEN Parsed(Str(t.val), t.next) ELSE Fail
    ELSE IF s[i] >= 48 /\ s[i] <= 57 THEN
        IF i < Len(s) /\ s[i + 1] >= 48 /\ s[i + 1] <= 57 THEN Fail
        ELSE Parsed(JNum(s[i] - 48), i + 1)
    ELSE IF s[i] = 110 THEN
        IF i + 3 <= Len(s) /\ SubSeq(s, i, i + 3) = <<110, 117, 108, 108>>
        THEN Parsed(JNull, i + 4) ELSE Fail
    ELSE IF s[i] = 123 THEN
        LET j == SkipWs(s, i + 1)
        IN  IF j > Len(s) THEN Fail
            ELSE IF s[j] = 125 THEN Parsed(JObj(<<>>), j + 1)
            ELSE ParseMembers(s, j, <<>>)
    ELSE Fail

JSONparse(s) ==
    LET v == ParseValue(s, SkipWs(s, 1))
    IN  IF v.ok /\ SkipWs(s, v.next) > Len(s) THEN Return(v.val)
        ELSE Throw("SyntaxError")

RECURSIVE JSONstringify(_)
RECURSIVE StringifyMembers(_)

StringifyMembers(m) ==
    IF m = <<>> THEN <<>>
    ELSE <<34>> \o Head(m)[1] \o <<34, 58>> \o JSONstringify(Head(m)[2])
         \o (IF Len(m) > 1 THEN <<44>> ELSE <<>>) \o StringifyMembers(Tail(m))

JSONstringify(v) ==
    CASE v.type = "null"   -> <<110, 117, 108, 108>>
      [] v.type = "number" -> <<48 + v.val>>
      [] v.type = "string" -> <<34>> \o v.val \o <<34>>
      [] v.type = "object" -> <<123>> \o StringifyMembers(v.val) \o <<125>>

\* buf.toString("utf8"): one- and two-byte sequences decode to their code
\* point, any other byte to U+FFFD
RECURSIVE Utf8Decode(_)
Utf8Decode(b) ==
    IF b = <<>> THEN <<>>
    ELSE IF b[1] < 128 THEN <<b[1]>> \o Utf8Decode(Tail(b))
    ELSE IF b[1] >= 194 /\ b[1] < 224 /\ Len(b) >= 2 /\ b[2] >= 128 /\ b[2] < 192
         THEN <<(b[1] - 192) * 64 + (b[2] - 128)>> \o Utf8Decode(Tail(Tail(b)))
    ELSE <<65533>> \o Utf8Decode(Tail(b))

\* value of a member of an object, Undefined when it has none (for a
\* repeated key JSON.parse keeps the last value)
RECURSIVE Lookup(_, _)
Lookup(m, key) ==
    IF m = <<>> THEN Undefined
    ELSE IF m[Len(m)][1] = key THEN m[Len(m)][2]
    ELSE Lookup(SubSeq(m, 1, Len(m) - 1), key)

\* v[key] for a value that is not null or undefined
Prop(v, key) == IF v.type = "object" THEN Lookup(v.val, key) ELSE Undefined

-----------------------------------------------------------------------------
(* venmailIntegrationWebhook *)

\* the member name "event_type"
KeyEventType == <<101, 118, 101, 110, 116, 95, 116, 121, 112, 101>>

DEFAULT_SIGNATURE_HEADER == "x-venmail-signature"

DEFAULT_EVENT_HEADER == "x-venmail-event"

HeaderNames == {DEFAULT_SIGNATURE_HEADER, DEFAULT_EVENT_HEADER}

\* req.get(name): Undefined for a header the request does not carry
Get(rq, name) == IF name \in DOMAIN rq.headers THEN rq.headers[name] ELSE Undefined

\* a ?? b
Coalesce(a, b) == IF a.type \in {"undefined", "null"} THEN b ELSE a

resolveRawBody(rq, fallback) ==
    IF IsBuffer(rq.body) THEN rq.body.val
    ELSE IF IsBuffer(rq.rawBody) THEN rq.rawBody.val
    ELSE IF IsString(rq.body) THEN Utf8(rq.body.val)
    ELSE IF IsString(rq.rawBody) THEN Utf8(rq.rawBody.val)
    ELSE IF rq.body.type = "object" THEN Utf8(JSONstringify(rq.body))
    ELSE IF fallback.type = "undefined" THEN <<123, 125>> ELSE fallback.val

\* a rawBodyExtractor a caller may supply: (req) => Buffer.from(req.rawBody ?? "")
ExtractRawBody(rq) ==
    IF IsBuffer(rq.rawBody) THEN rq.rawBody.val
    ELSE IF IsString(rq.rawBody) THEN Utf8(rq.rawBody.val)
    ELSE <<>>

InvalidSignatureBody == [ok |-> FALSE, error |-> "Invalid Venmail signature"]

SuccessBody == [ok |-> TRUE]

Response(by, status, body) == [by |-> by, status |-> status, body |-> body]

\* the raw bytes the handler verifies and decodes (line 174)
RawOf(o, rq) ==
    IF o.rawBodyExtractor.type = "function" THEN ExtractRawBody(rq)
    ELSE resolveRawBody(rq, Undefined)

\* the signature header, "" when missing (line 175)
ProvidedSignature(o, rq) == Coalesce(Get(rq, o.signatureHeader), Str(<<>>))

\* isValid with the error of the verifier taken as an invalid signature
IsValid_CaughtAsInvalid(o, rq) ==
    IF o.allowUnsigned THEN Return(TRUE)
    ELSE LET v == verifyVenmailSignature(o.secret, ProvidedSignature(o, rq), Buf(RawOf(o, rq)), "hex")
         IN  IF v.kind = "throw" THEN Return(FALSE) ELSE v

\* isValid (lines 177-179)
IsValid(o, rq) ==
    IF o.allowUnsigned THEN Return(TRUE)
    ELSE verifyVenmailSignature(o.secret, ProvidedSignature(o, rq), Buf(RawOf(o, rq)), "hex")

\* Enrich with the two header values swapped
Enrich_Swapped(o, rq, parsed) ==
    LET h == Get(rq, o.eventHeader)
    IN  IF h.type = "undefined" /\ parsed.type = "null" THEN Throw("TypeError")
        ELSE Return([body    |-> parsed,
                     headers |-> [event     |-> ProvidedSignature(o, rq),
                                  signature |-> Coalesce(h, Coalesce(Prop(parsed, KeyEventType), Str(<<>>)))]])

\* the enriched event (lines 188-194); reading event_type of null throws
Enrich(o, rq, parsed) ==
    LET h == Get(rq, o.eventHeader)
    IN  IF h.type = "undefined" /\ parsed.type = "null" THEN Throw("TypeError")
        ELSE Return([body    |-> parsed,
                     headers |-> [event     |-> Coalesce(h, Coalesce(Prop(parsed, KeyEventType), Str(<<>>))),
                                  signature |-> ProvidedSignature(o, rq)]])

\* BeforeOnEvent decoding the body before it verifies the signature
BeforeOnEvent_ParseFirst(o, rq) ==
    LET parsed == JSONparse(Utf8Decode(RawOf(o, rq)))
        valid  == IsValid(o, rq)
    IN  IF parsed.kind = "throw" THEN [kind |-> "next", error |-> parsed.error]
        ELSE IF valid.kind = "throw" THEN [kind |-> "next", error |-> valid.error]
        ELSE IF ~valid.value
             THEN [kind |-> "respond", response |-> Response("adaptor", 401, InvalidSignatureBody)]
        ELSE LET enriched == Enrich(o, rq, parsed.value)
             IN  IF enriched.kind = "throw"
                 THEN [kind |-> "next", error |-> enriched.error]
                 ELSE [kind |-> "onEvent", event |-> enriched.value]

\* The request handler from its start to the call of onEvent (lines
\* 173-196): what it does with the request.
BeforeOnEvent(o, rq) ==
    LET valid == IsValid(o, rq)
    IN  IF valid.kind = "throw" THEN [kind |-> "next", error |-> valid.error]
        ELSE IF ~valid.value
             THEN [kind |-> "respond", response |-> Response("adaptor", 401, InvalidSignatureBody)]
        ELSE LET parsed == JSONparse(Utf8Decode(RawOf(o, rq)))
             IN  IF parsed.kind = "throw" THEN [kind |-> "next", error |-> parsed.error]
                 ELSE LET enriched == Enrich(o, rq, parsed.value)
                      IN  IF enriched.kind = "throw"
                          THEN [kind |-> "next", error |-> enriched.error]
                          ELSE [kind |-> "onEvent", event |-> enriched.value]

\* the call of onEvent without the await
Settled_NoAwait(h) == TRUE

\* await onEvent(...) (line 196): the handler goes on once the promise settled
Settled(h) == h \in {"fulfilled", "rejected"}

\* AfterOnEvent with a catch that drops the error
AfterOnEvent_Swallow(o, h, headersSent) ==
    IF h = "rejected" THEN [kind |-> "nothing"]
    ELSE IF o.autoRespond /\ ~headersSent
         THEN [kind |-> "respond", response |-> Response("adaptor", 200, SuccessBody)]
    ELSE [kind |-> "nothing"]

\* The request handler after the await (lines 196-203): a rejection goes
\* to the catch, otherwise the default response is written when asked for and
\* res.headersSent is false.
AfterOnEvent(o, h, headersSent) ==
    IF h = "rejected" THEN [kind |-> "next", error |-> "onEvent error"]
    ELSE IF o.autoRespond /\ ~headersSent
         THEN [kind |-> "respond", response |-> Response("adaptor", 200, SuccessBody)]
    ELSE [kind |-> "nothing"]

-----------------------------------------------------------------------------
(* detectVenmailWebhookKind, extractCampaignId, normalizeDeliveryEvent and  *)
(* the payload guards.  A payload is any value; an object is JObj of its    *)
(* members.                                                                 *)

\* the member names the payload shapes are told by
KeyFormId == <<102, 111, 114, 109, 95, 105, 100>>

KeyEvents == <<101, 118, 101, 110, 116, 115>>

KeyOriginalMessage == <<111, 114, 105, 103, 105, 110, 97, 108, 95, 109, 101, 115, 115, 97, 103, 101>>

KeyBounce == <<98, 111, 117, 110, 99, 101>>

KeyStatus == <<115, 116, 97, 116, 117, 115>>

KeyMessage == <<109, 101, 115, 115, 97, 103, 101>>

KeyRcptTo == <<114, 99, 112, 116, 95, 116, 111>>

KeyMessageId == <<109, 101, 115, 115, 97, 103, 101, 95, 105, 100>>

KeyTag == <<116, 97, 103>>

KeyTo == <<116, 111>>

\* the literals "campaign:", "MessageBounced" and "Unknown"
CampaignPrefix == <<99, 97, 109, 112, 97, 105, 103, 110, 58>>

MessageBounced == Str(<<77, 101, 115, 115, 97, 103, 101, 66, 111, 117, 110, 99, 101, 100>>)

UnknownStatus == Str(<<85, 110, 107, 110, 111, 119, 110>>)

\* Boolean(v)
Truthy(v) ==
    CASE v.type \in {"undefined", "null"} -> FALSE
      [] v.type = "string" -> v.val # <<>>
      [] v.type = "number" -> v.val # 0
      [] OTHER -> TRUE

\* tag.startsWith(prefix)
StartsWith(s, prefix) == Len(s) >= Len(prefix) /\ SubSeq(s, 1, Len(prefix)) = prefix

\* index of the first character c of s at or after i, 0 when there is none
RECURSIVE IndexOf(_, _, _)
IndexOf(s, c, i) ==
    IF i > Len(s) THEN 0 ELSE IF s[i] = c THEN i ELSE IndexOf(s, c, i + 1)

\* s.split(":"): the pieces of s between its colons
RECURSIVE Split(_)
Split(s) ==
    LET i == IndexOf(s, 58, 1)
    IN  IF i = 0 THEN <<s>> ELSE <<SubSeq(s, 1, i - 1)>> \o Split(SubSeq(s, i + 1, Len(s)))

extractCampaignId(tag) ==
    IF ~Truthy(tag) \/ tag.type # "string" THEN JNull
    ELSE IF StartsWith(tag.val, CampaignPrefix)
         THEN LET pieces == Split(tag.val)
              IN  IF Len(pieces) >= 2 THEN Str(pieces[2]) ELSE JNull
    ELSE JNull

isMailWebhookPayload(value) ==
    Truthy(value) /\ Truthy(Prop(value, KeyMessageId)) /\ Truthy(Prop(value, KeyRcptTo))

isStatusPayload(value) ==
    Truthy(value) /\ Truthy(Prop(value, KeyStatus)) /\ Truthy(Prop(value, KeyMessage))

isBouncePayload(value) ==
    Truthy(value) /\ Truthy(Prop(value, KeyOriginalMessage)) /\ Truthy(Prop(value, KeyBounce))

Inspection(kind, campaignId) ==
    [kind |-> kind, isCampaignEvent |-> Truthy(campaignId), campaignId |-> campaignId]

\* detectVenmailWebhookKind testing the mail shape first
detectVenmailWebhookKind_MailFirst(payload) ==
    IF ~Truthy(payload) THEN [kind |-> "unknown"]
    ELSE IF Truthy(Prop(payload, KeyRcptTo)) /\ Truthy(Prop(payload, KeyMessageId))
         THEN [kind |-> "mail"]
    ELSE IF Prop(payload, KeyEventType).type = "string" THEN [kind |-> "integration"]
    ELSE IF Truthy(Prop(payload, KeyFormId)) /\ Truthy(Prop(payload, KeyEvents))
         THEN [kind |-> "form"]
    ELSE IF Truthy(Prop(payload, KeyOriginalMessage)) /\ Truthy(Prop(payload, KeyBounce))
         THEN Inspection("bounce", extractCampaignId(Prop(Prop(payload, KeyOriginalMessage), KeyTag)))
    ELSE IF Truthy(Prop(payload, KeyStatus)) /\ Truthy(Prop(payload, KeyMessage))
         THEN Inspection("status", extractCampaignId(Prop(Prop(payload, KeyMessage), KeyTag)))
    ELSE [kind |-> "unknown"]

detectVenmailWebhookKind(payload) ==
    IF ~Truthy(payload) THEN [kind |-> "unknown"]
    ELSE IF Prop(payload, KeyEventType).type = "string" THEN [kind |-> "integration"]
    ELSE IF Truthy(Prop(payload, KeyFormId)) /\ Truthy(Prop(payload, KeyEvents))
         THEN [kind |-> "form"]
    ELSE IF Truthy(Prop(payload, KeyOriginalMessage)) /\ Truthy(Prop(payload, KeyBounce))
         THEN Inspection("bounce", extractCampaignId(Prop(Prop(payload, KeyOriginalMessage), KeyTag)))
    ELSE IF Truthy(Prop(payload, KeyStatus)) /\ Truthy(Prop(payload, KeyMessage))
         THEN Inspection("status", extractCampaignId(Prop(Prop(payload, KeyMessage), KeyTag)))
    ELSE IF Truthy(Prop(payload, KeyRcptTo)) /\ Truthy(Prop(payload, KeyMessageId))
         THEN [kind |-> "mail"]
    ELSE [kind |-> "unknown"]

Normalized(messageId, recipient, status, campaignId, payload) ==
    [messageId |-> messageId, recipient |-> recipient, status |-> status,
     campaignId |-> campaignId, payload |-> payload]

\* normalizeDeliveryEvent testing the status shape first
normalizeDeliveryEvent_StatusFirst(payload) ==
    IF isStatusPayload(payload) THEN
        LET message == Coalesce(Prop(payload, KeyMessage), JObj(<<>>))
        IN  Normalized(Prop(message, KeyMessageId), Prop(message, KeyTo),
                       Prop(payload, KeyStatus), extractCampaignId(Prop(message, KeyTag)), payload)
    ELSE IF isBouncePayload(payload) THEN
        LET message == Prop(payload, KeyOriginalMessage)
        IN  Normalized(Prop(message, KeyMessageId), Prop(message, KeyTo), MessageBounced,
                       extractCampaignId(Prop(message, KeyTag)), payload)
    ELSE Normalized(Undefined, Undefined, UnknownStatus, JNull, payload)

normalizeDeliveryEvent(payload) ==
    IF isBouncePayload(payload) THEN
        LET message == Prop(payload, KeyOriginalMessage)
        IN  Normalized(Prop(message, KeyMessageId), Prop(message, KeyTo), MessageBounced,
                       extractCampaignId(Prop(message, KeyTag)), payload)
    ELSE IF isStatusPayload(payload) THEN
        LET message == Coalesce(Prop(payload, KeyMessage), JObj(<<>>))
        IN  Normalized(Prop(message, KeyMessageId), Prop(message, KeyTo),
                       Prop(payload, KeyStatus), extractCampaignId(Prop(message, KeyTag)), payload)
    ELSE Normalized(Undefined, Undefined, UnknownStatus, JNull, payload)

-----------------------------------------------------------------------------
(* The requests and the options of the model *)

\* the secret the sender of the webhooks signs with
SenderSecret == Str(<<107>>)

\* bodies on the wire: {}  {"event_type":"m"}  null  {  and {} after a space
WireEmptyObject == <<123, 125>>

WireEvent == <<123, 34>> \o KeyEventType \o <<34, 58, 34, 109, 34, 125>>

WireNull == <<110, 117, 108, 108>>

WireBroken == <<123>>

WireSpaced == <<32, 123, 125>>

Wires == {WireEmptyObject, WireEvent, WireNull, WireBroken, WireSpaced}

\* the signature the sender computes for a body
SignatureOf(secret, bytes) == HexEncode(Hmac(Utf8(secret.val), bytes))

\* s with its i-th character replaced by c
ReplaceAt(s, i, c) == [j \in 1..Len(s) |-> IF j = i THEN c ELSE s[j]]

\* a hex digit of another value than c
OtherDigit(c) == HexDigit((HexVal(c) + 1) % 16)

\* signature headers a request for body w may carry: the right one, none, an
\* empty one, one with a digit changed, the right one followed by "zz"
SigValid(w) == Str(SignatureOf(SenderSecret, w))

SigWrong(w) == Str(ReplaceAt(SigValid(w).val, 1, OtherDigit(SigValid(w).val[1])))

SigPadded(w) == Str(SigValid(w).val \o <<122, 122>>)

\* the request object as the body parser in front of the middleware leaves
\* it: express.raw (a Buffer body), express.text (a string body),
\* express.json (the parsed body), the same with a verify hook that keeps
\* req.rawBody, or no body parser at all
Shaped(w, shape) ==
    CASE shape = "raw"     -> [body |-> Buf(w), rawBody |-> Undefined]
      [] shape = "text"    -> [body |-> Str(Utf8Decode(w)), rawBody |-> Undefined]
      [] shape = "json"    -> [body |-> JSONparse(Utf8Decode(w)).value, rawBody |-> Undefined]
      [] shape = "jsonRaw" -> [body |-> JSONparse(Utf8Decode(w)).value, rawBody |-> Buf(w)]
      [] shape = "none"    -> [body |-> Undefined, rawBody |-> Undefined]

Request(w, shape, sig, ev) ==
    [wire    |-> w,
     body    |-> Shaped(w, shape).body,
     rawBody |-> Shaped(w, shape).rawBody,
     headers |-> [h \in HeaderNames |-> IF h = DEFAULT_SIGNATURE_HEADER THEN sig ELSE ev]]

EventHeader == Str(<<120>>)

Requests ==
    {Request(w, "raw", sig, Undefined) : w \in Wires, sig \in {Undefined}} \cup
    {Request(w, "raw", SigValid(w), Undefined) : w \in Wires} \cup
    {Request(w, "raw", SigValid(w), EventHeader) : w \in {WireEvent, WireNull}} \cup
    {Request(WireEvent, "json", SigValid(WireEvent), EventHeader)} \cup
    {Request(WireEmptyObject, "raw", sig, Undefined) :
        sig \in {Str(<<>>), SigWrong(WireEmptyObject), SigPadded(WireEmptyObject)}} \cup
    {Request(w, shape, SigValid(w), Undefined) :
        w \in {WireEmptyObject, WireSpaced}, shape \in {"text", "json", "jsonRaw"}} \cup
    {Request(WireEmptyObject, "none", SigValid(WireEmptyObject), Undefined)}

NoRequest == [wire |-> <<>>, body |-> Undefined, rawBody |-> Undefined,
              headers |-> [h \in HeaderNames |-> Undefined]]

\* a rawBodyExtractor given in the options
Extractor == [type |-> "function"]

\* an onEvent handler given in the options
OnEvent == [type |-> "function"]

Options(secret, allowUnsigned, rawBodyExtractor, autoRespond) ==
    [secret           |-> secret,
     onEvent          |-> OnEvent,
     allowUnsigned    |-> allowUnsigned,
     signatureHeader  |-> DEFAULT_SIGNATURE_HEADER,
     eventHeader      |-> DEFAULT_EVENT_HEADER,
     rawBodyExtractor |-> rawBodyExtractor,
     autoRespond      |-> autoRespond]

\* the defaults of lines 162-166 for a secret
DefaultOptions(secret) == Options(secret, FALSE, Undefined, TRUE)

OptionSets ==
    {Options(secret, u, Undefined, a) :
        secret \in {Str(<<>>), SenderSecret}, u \in BOOLEAN, a \in BOOLEAN} \cup
    {Options(SenderSecret, FALSE, Extractor, TRUE)}

\* the options callers build a middleware from: also without onEvent
CandidateOptions ==
    OptionSets \cup {[o EXCEPT !.onEvent = Undefined] : o \in OptionSets}

\* venmailIntegrationWebhook(options) up to the return of the handler (lines
\* 159-172): it raises without an onEvent function, and returns the handler,
\* which holds the options it was built with
Construct(o) ==
    IF o.onEvent.type # "function" THEN Throw("onEvent handler is required")
    ELSE Return(o)

-----------------------------------------------------------------------------
(* The middleware handling requests *)

Reqs == 1..NumReqs

Init ==
    /\ opts \in {Construct(o).value : o \in {c \in CandidateOptions : Construct(c).kind = "return"}}
    /\ req = [r \in Reqs |-> NoRequest]
    /\ pc = [r \in Reqs |-> "idle"]
    /\ hstate = [r \in Reqs |-> "none"]
    /\ calls = [r \in Reqs |-> <<>>]
    /\ writes = [r \in Reqs |-> <<>>]
    /\ nexts = [r \in Reqs |-> <<>>]
    /\ libArgs = [fn |-> "none"]
    /\ libResult = [kind |-> "none"]

\* what a step of the handler of request r does to res, next and onEvent
Effect(r, out) ==
    /\ writes' = [writes EXCEPT ![r] =
                    IF out.kind = "respond" THEN Append(@, out.response) ELSE @]
    /\ nexts' = [nexts EXCEPT ![r] =
                    IF out.kind = "next" THEN Append(@, out.error) ELSE @]
    /\ calls' = [calls EXCEPT ![r] =
                    IF out.kind = "onEvent" THEN Append(@, out.event) ELSE @]

\* Express calls the handler with a request; it runs to the await of line
\* 196 or to its end.
ReceiveFrom(r, rqs) ==
    /\ pc[r] = "idle"
    /\ \E rq \in rqs :
        LET out == BeforeOnEvent(opts, rq)
        IN  /\ req' = [req EXCEPT ![r] = rq]
            /\ Effect(r, out)
            /\ pc' = [pc EXCEPT ![r] = IF out.kind = "onEvent" THEN "awaiting" ELSE "done"]
            /\ hstate' = [hstate EXCEPT ![r] = IF out.kind = "onEvent" THEN "pending" ELSE @]
    /\ UNCHANGED <<opts, libVars>>

Receive(r) == ReceiveFrom(r, Requests)

HandlerWrites(r) == Len(SelectSeq(writes[r], LAMBDA w : w.by = "onEvent"))

\* onEvent writes a response of its own through res
OnEventWrite(r) ==
    /\ hstate[r] = "pending"
    /\ HandlerWrites(r) < MaxHandlerWrites
    /\ writes' = [writes EXCEPT ![r] = Append(@, Response("onEvent", 202, [ok |-> TRUE]))]
    /\ UNCHANGED <<opts, req, pc, hstate, calls, nexts, libVars>>

\* onEvent returns, or the promise it returned is fulfilled
OnEventResolve(r) ==
    /\ hstate[r] = "pending"
    /\ hstate' = [hstate EXCEPT ![r] = "fulfilled"]
    /\ UNCHANGED <<opts, req, pc, calls, writes, nexts, libVars>>

\* onEvent throws, or the promise it returned is rejected
OnEventReject(r) ==
    /\ hstate[r] = "pending"
    /\ hstate' = [hstate EXCEPT ![r] = "rejected"]
    /\ UNCHANGED <<opts, req, pc, calls, writes, nexts, libVars>>

\* res.headersSent with one response for all the requests
HeadersSent_Shared(r) == \E q \in DOMAIN pc : writes[q] # <<>>

\* res.headersSent (line 198): res is the response object of request r
HeadersSent(r) == writes[r] # <<>>

\* the handler goes on after the await, to its end
Resume(r) ==
    /\ pc[r] = "awaiting"
    /\ Settled(hstate[r])
    /\ Effect(r, AfterOnEvent(opts, hstate[r], HeadersSent(r)))
    /\ pc' = [pc EXCEPT ![r] = "done"]
    /\ UNCHANGED <<opts, req, hstate, libVars>>

Next ==
    \/ \E r \in DOMAIN pc : Receive(r)
    \/ \E r \in DOMAIN pc : OnEventWrite(r)
    \/ \E r \in DOMAIN pc : OnEventResolve(r)
    \/ \E r \in DOMAIN pc : OnEventReject(r)
    \/ \E r \in DOMAIN pc : Resume(r)

Spec == Init /\ [][Next]_vars

-----------------------------------------------------------------------------
(* One middleware handling several requests at a time.  A handler runs     *)
(* without interruption up to its await and from its await to its end; the *)
(* handlers of different requests interleave at these points.              *)

\* requests of every outcome: two that pass with different events, one
\* without signature, one signed that is no JSON
ConcurrentRequests ==
    {Request(WireEvent, "raw", SigValid(WireEvent), Undefined),
     Request(WireEmptyObject, "raw", SigValid(WireEmptyObject), EventHeader),
     Request(WireEmptyObject, "raw", Undefined, Undefined),
     Request(WireBroken, "raw", SigValid(WireBroken), Undefined)}

ConcurrentOptions ==
    {Options(SenderSecret, FALSE, Undefined, a) : a \in BOOLEAN}

ConcurrentReqs == 1..NumConcurrent

InitConcurrent ==
    /\ opts \in {Construct(o).value : o \in ConcurrentOptions}
    /\ req = [r \in ConcurrentReqs |-> NoRequest]
    /\ pc = [r \in ConcurrentReqs |-> "idle"]
    /\ hstate = [r \in ConcurrentReqs |-> "none"]
    /\ calls = [r \in ConcurrentReqs |-> <<>>]
    /\ writes = [r \in ConcurrentReqs |-> <<>>]
    /\ nexts = [r \in ConcurrentReqs |-> <<>>]
    /\ libArgs = [fn |-> "none"]
    /\ libResult = [kind |-> "none"]

NextConcurrent ==
    \/ \E r \in DOMAIN pc : ReceiveFrom(r, ConcurrentRequests)
    \/ \E r \in DOMAIN pc : OnEventWrite(r)
    \/ \E r \in DOMAIN pc : OnEventResolve(r)
    \/ \E r \in DOMAIN pc : OnEventReject(r)
    \/ \E r \in DOMAIN pc : Resume(r)

SpecConcurrent == InitConcurrent /\ [][NextConcurrent]_vars

-----------------------------------------------------------------------------
(* Direct calls of the exported verifiers *)

LibSecrets == {Str(<<>>), SenderSecret, Str(<<115, 233>>)}

\* payloads as text and as bytes, one of them not ASCII, one not UTF-8
LibBodies ==
    {Str(WireEmptyObject), Buf(WireEmptyObject), Str(<<233>>), Buf(<<195, 169>>), Buf(<<233>>)}

\* characters a tampered signature may hold: digits, letters of both cases
\* and two characters that are no hex digits
SigAlphabet == {48, 57, 103, 122} \cup (97..102) \cup (65..70)

SingleCharChanges(s) ==
    {ReplaceAt(s, i, c) : i \in 1..Len(s), c \in SigAlphabet} \ {s}

SignaturesFor(secret, rawBody) ==
    LET valid == SignatureOf(secret, IF IsString(rawBody) THEN Utf8(rawBody.val) ELSE rawBody.val)
    IN  {Undefined, Str(<<>>), Str(valid), Str(<<105, 110>>),
         Str(valid \o <<122, 122>>), Str(valid \o <<48>>), Str(valid \o <<48, 48>>),
         Str(SubSeq(valid, 1, Len(valid) - 2))}
        \cup {Str(t) : t \in SingleCharChanges(valid)}

VerifySignatureCalls ==
    UNION {{[fn |-> "verifyVenmailSignature", secret |-> secret, signature |-> sig,
             rawBody |-> body, encoding |-> "hex"] : sig \in SignaturesFor(secret, body)} :
           secret \in LibSecrets, body \in LibBodies}

VerifySharedSecretCalls ==
    {[fn |-> "verifySharedSecretHeader", secret |-> secret, provided |-> provided] :
        secret \in LibSecrets,
        provided \in {Undefined, JNull} \cup LibSecrets
                     \cup {Str(x.val \o <<120>>) : x \in LibSecrets}
                     \cup {Str(<<75>>), Str(<<115, 232>>)}}

\* tags of a message: none, campaign tags (one with a colon in the id, one
\* with an empty id), other tags, a tag that is no string
Tags ==
    {Undefined, Str(<<99, 97, 109, 112, 97, 105, 103, 110, 58, 49, 50>>), Str(<<99, 97, 109, 112, 97, 105, 103, 110, 58, 49, 58, 50>>), Str(<<99, 97, 109, 112, 97, 105, 103, 110, 58>>),
     Str(<<99, 97, 109, 112, 97, 105, 103, 110>>), Str(<<120, 58, 49>>), JNum(7)}

\* the members a tag adds to a message
TagMember(tag) == IF tag = Undefined THEN <<>> ELSE << <<KeyTag, tag>> >>

\* a message reference {message_id: "m", to: "t", tag}
MessageRef(tag) ==
    JObj(<< <<KeyMessageId, Str(<<109>>)>>, <<KeyTo, Str(<<116>>)>> >> \o TagMember(tag))

\* the members a payload may have for each shape: none, the members of the
\* shape, members that miss it (one absent, or one falsy)
EventTypeParts ==
    {<<>>, << <<KeyEventType, Str(<<109>>)>> >>, << <<KeyEventType, Str(<<>>)>> >>,
     << <<KeyEventType, JNum(1)>> >>}

FormParts ==
    {<<>>, << <<KeyFormId, JNum(3)>>, <<KeyEvents, JObj(<<>>)>> >>,
     << <<KeyFormId, JNum(3)>> >>, << <<KeyFormId, JNum(0)>>, <<KeyEvents, JObj(<<>>)>> >>}

BounceParts ==
    {<<>>, << <<KeyOriginalMessage, MessageRef(Undefined)>> >>} \cup
    {<< <<KeyOriginalMessage, MessageRef(t)>>,
        <<KeyBounce, JObj(<< <<KeyStatus, Str(<<120>>)>> >>)>> >> : t \in Tags}

StatusParts ==
    {<<>>, << <<KeyStatus, Str(<<100>>)>> >>,
     << <<KeyStatus, Str(<<>>)>>, <<KeyMessage, MessageRef(Undefined)>> >>} \cup
    {<< <<KeyStatus, Str(<<100>>)>>, <<KeyMessage, MessageRef(t)>> >> : t \in Tags}

MailParts ==
    {<<>>, << <<KeyRcptTo, Str(<<114>>)>>, <<KeyMessageId, Str(<<109>>)>> >>,
     << <<KeyRcptTo, Str(<<114>>)>> >>}

Payloads ==
    {Undefined, JNull, Str(<<120>>), JNum(0), JNum(5)} \cup
    {JObj(e \o f \o b \o st \o m) :
        e \in EventTypeParts, f \in FormParts, b \in BounceParts,
        st \in StatusParts, m \in MailParts}

PayloadCalls ==
    {[fn |-> fn, payload |-> p] :
        fn \in {"detectVenmailWebhookKind", "normalizeDeliveryEvent"}, p \in Payloads}

\* request objects for the extraction of the raw bytes: every kind of body
\* with every kind of rawBody field, all of different content
RawBodyRequests ==
    {[wire |-> <<>>, body |-> b, rawBody |-> rb, headers |-> [h \in HeaderNames |-> Undefined]] :
        b \in {Undefined, JNull, Buf(<<49>>), Str(<<50>>), Str(<<233>>), JObj(<<>>)},
        rb \in {Undefined, Buf(<<51>>), Str(<<52>>)}}

RawBodyCalls ==
    {[fn |-> "resolveRawBody", req |-> rq, rawBodyExtractor |-> x] :
        rq \in RawBodyRequests, x \in {Undefined, Extractor}}

InitLib ==
    /\ opts = DefaultOptions(SenderSecret)
    /\ req = [r \in Reqs |-> NoRequest]
    /\ pc = [r \in Reqs |-> "idle"]
    /\ hstate = [r \in Reqs |-> "none"]
    /\ calls = [r \in Reqs |-> <<>>]
    /\ writes = [r \in Reqs |-> <<>>]
    /\ nexts = [r \in Reqs |-> <<>>]
    /\ libArgs \in VerifySignatureCalls \cup VerifySharedSecretCalls \cup PayloadCalls
                    \cup RawBodyCalls
    /\ libResult = [kind |-> "none"]

CallVerifySignature ==
    /\ libArgs.fn = "verifyVenmailSignature"
    /\ libResult.kind = "none"
    /\ libResult' = verifyVenmailSignature(libArgs.secret, libArgs.signature,
                                            libArgs.rawBody, libArgs.encoding)
    /\ UNCHANGED <<mwVars, libArgs>>

CallVerifySharedSecret ==
    /\ libArgs.fn = "verifySharedSecretHeader"
    /\ libResult.kind = "none"
    /\ libResult' = verifySharedSecretHeader(libArgs.secret, libArgs.provided)
    /\ UNCHANGED <<mwVars, libArgs>>

CallDetect ==
    /\ libArgs.fn = "detectVenmailWebhookKind"
    /\ libResult.kind = "none"
    /\ libResult' = Return(detectVenmailWebhookKind(libArgs.payload))
    /\ UNCHANGED <<mwVars, libArgs>>

CallNormalize ==
    /\ libArgs.fn = "normalizeDeliveryEvent"
    /\ libResult.kind = "none"
    /\ libResult' = Return(normalizeDeliveryEvent(libArgs.payload))
    /\ UNCHANGED <<mwVars, libArgs>>

\* the raw bytes of line 174 for a request and the rawBodyExtractor option
CallResolveRawBody ==
    /\ libArgs.fn = "resolveRawBody"
    /\ libResult.kind = "none"
    /\ libResult' = Return(Buf(RawOf([rawBodyExtractor |-> libArgs.rawBodyExtractor],
                                       libArgs.req)))
    /\ UNCHANGED <<mwVars, libArgs>>

NextLib ==
    \/ CallVerifySignature
    \/ CallVerifySharedSecret
    \/ CallDetect
    \/ CallNormalize
    \/ CallResolveRawBody

SpecLib == InitLib /\ [][NextLib]_vars

-----------------------------------------------------------------------------
(* Properties of the request handler (checked under Spec) *)

Unauthorized == Response("adaptor", 401, InvalidSignatureBody)

Success == Response("adaptor", 200, SuccessBody)

AdaptorWrites(r) == SelectSeq(writes[r], LAMBDA w : w.by = "adaptor")

Strict == ~opts.allowUnsigned /\ ~Falsy(opts.secret)

Rejected(r) == pc[r] # "idle" /\ IsValid(opts, req[r]) = Return(FALSE)

Accepted(r) == pc[r] # "idle" /\ IsValid(opts, req[r]) = Return(TRUE)

DecodeFails(r) == JSONparse(Utf8Decode(RawOf(opts, req[r]))).kind = "throw"

\* C1: with allowUnsigned false and a non-empty secret, a request whose
\* signature verification returns false is answered 401 with the fixed error
\* body and the handler stops there: onEvent is not invoked, next is not
\* called, and a body that is no JSON makes no difference.
C1_InvalidSignatureRejected ==
    \A r \in DOMAIN pc :
        (Strict /\ Rejected(r)) =>
            /\ pc[r] = "done"
            /\ writes[r] = <<Unauthorized>>
            /\ calls[r] = <<>>
            /\ nexts[r] = <<>>
            /\ hstate[r] = "none"

\* a request with a body that is no JSON and no signature header was answered 401
C1_Witness ==
    \E r \in DOMAIN pc :
        /\ Strict /\ Rejected(r) /\ DecodeFails(r)
        /\ Get(req[r], opts.signatureHeader) = Undefined
        /\ writes[r] = <<Unauthorized>>

HasDefaultOptions == opts = DefaultOptions(opts.secret) /\ ~Falsy(opts.secret)

SignedOverWire(r) ==
    Get(req[r], DEFAULT_SIGNATURE_HEADER) = Str(SignatureOf(opts.secret, req[r].wire))

SignedOverRaw(r) ==
    Get(req[r], DEFAULT_SIGNATURE_HEADER) = Str(SignatureOf(opts.secret, RawOf(opts, req[r])))

\* the raw bytes decode as JSON and building the event does not fail
Decodes(r) ==
    /\ ~DecodeFails(r)
    /\ Enrich(opts, req[r], JSONparse(Utf8Decode(RawOf(opts, req[r]))).value).kind = "return"

InvokedOnceWithSignature(r) ==
    /\ Len(calls[r]) = 1
    /\ calls[r][1].headers.signature = Get(req[r], DEFAULT_SIGNATURE_HEADER)

\* C2 as stated: with default options, a handled request whose signature
\* header is the hex HMAC-SHA256 of its exact body under the configured secret
\* was answered 200 and onEvent was invoked exactly once, with an event
\* whose signature header value is the one provided (stated for the requests
\* whose exact body is what the handler resolves as raw bytes).
C2_AsStated ==
    \A r \in DOMAIN pc :
        (/\ HasDefaultOptions /\ pc[r] = "done" /\ SignedOverWire(r)
         /\ RawOf(opts, req[r]) = req[r].wire) =>
            /\ \E i \in 1..Len(writes[r]) : writes[r][i].status = 200
            /\ InvokedOnceWithSignature(r)

\* C2 amended: with default options and a non-empty secret, a request whose
\* signature header is the hex HMAC-SHA256 of the raw bytes the handler
\* resolves for it, and whose raw bytes decode as JSON (not as null when no
\* event header is sent), has onEvent invoked exactly once, with an event
\* whose signature header value is the one provided; and once onEvent has
\* completed without raising and without writing a response, the request is
\* answered 200 {ok: true}.
C2_SignedJsonHandled ==
    \A r \in DOMAIN pc :
        (HasDefaultOptions /\ pc[r] # "idle" /\ SignedOverRaw(r) /\ Decodes(r)) =>
            /\ InvokedOnceWithSignature(r)
            /\ (pc[r] = "done" /\ hstate[r] = "fulfilled" /\ HandlerWrites(r) = 0)
                    => writes[r] = <<Success>>

C2_Witness ==
    \E r \in DOMAIN pc :
        /\ HasDefaultOptions /\ pc[r] = "done" /\ SignedOverRaw(r) /\ Decodes(r)
        /\ req[r].body.type = "object"
        /\ writes[r] = <<Success>>
        /\ InvokedOnceWithSignature(r)

\* C3: a correctly signed request handled with autoRespond false by an
\* onEvent that writes no response has received a response with status 200
\* and a body whose ok is true once it has been handled.
C3_RespondsWithoutAutoRespond ==
    \A r \in DOMAIN pc :
        (/\ ~opts.autoRespond /\ ~opts.allowUnsigned /\ ~Falsy(opts.secret)
         /\ pc[r] = "done" /\ SignedOverRaw(r) /\ Decodes(r)
         /\ hstate[r] = "fulfilled" /\ HandlerWrites(r) = 0) =>
            \E i \in 1..Len(writes[r]) :
                writes[r][i].status = 200 /\ writes[r][i].body.ok

\* the step appends the success response of the adaptor for request r
WritesSuccess(r) ==
    /\ Len(writes'[r]) = Len(writes[r]) + 1
    /\ writes'[r][Len(writes'[r])] = Success

\* the step is the continuation of the handler of request r after the await
Continues(r) == pc[r] = "awaiting" /\ pc'[r] = "done"

C5_ErrorsForwarded ==
    \A r \in DOMAIN pc :
        /\ Len(nexts[r]) <= 1
        /\ (Accepted(r) /\ DecodeFails(r)) =>
              (nexts[r] = <<"SyntaxError">> /\ calls[r] = <<>> /\ writes[r] = <<>>)
        /\ (Accepted(r) /\ hstate[r] = "rejected") =>
              (AdaptorWrites(r) = <<>> /\ (pc[r] = "done" => nexts[r] = <<"onEvent error">>))

\* onEvent rejected after the request passed verification; next got the error
C5_Witness ==
    \E r \in DOMAIN pc :
        /\ Accepted(r) /\ hstate[r] = "rejected" /\ pc[r] = "done"
        /\ nexts[r] = <<"onEvent error">>

-----------------------------------------------------------------------------
(* Properties of the verifiers (checked under SpecLib) *)

Called(fn) == libArgs.fn = fn /\ libResult.kind # "none"

\* the hex HMAC of the payload of the call under its secret; a text payload
\* is hashed as its UTF-8 bytes
ExpectedSignature ==
    HexEncode(Hmac(Utf8(libArgs.secret.val),
                   IF libArgs.rawBody.type = "string" THEN Utf8(libArgs.rawBody.val)
                   ELSE libArgs.rawBody.val))

\* C6: for a non-empty secret and a payload given as bytes or as text,
\* verifyVenmailSignature returns true for the hex HMAC-SHA256 of the payload
\* under the secret, with the default encoding.
C6_ValidSignatureAccepted ==
    (/\ Called("verifyVenmailSignature") /\ ~Falsy(libArgs.secret)
     /\ libArgs.encoding = "hex" /\ libArgs.signature = Str(ExpectedSignature))
        => libResult = Return(TRUE)

\* the valid signature of a text payload that is not ASCII was accepted
C6_Witness ==
    /\ Called("verifyVenmailSignature") /\ libArgs.signature = Str(ExpectedSignature)
    /\ libArgs.rawBody = Str(<<233>>) /\ libArgs.secret = Str(<<115, 233>>)
    /\ libResult = Return(TRUE)

\* a and b are strings of one length that differ in exactly one character
OneCharacterChanged(a, b) ==
    /\ a.type = "string" /\ Len(a.val) = Len(b)
    /\ Cardinality({i \in 1..Len(b) : a.val[i] # b[i]}) = 1

\* C7: changing any single character of a valid signature makes
\* verifyVenmailSignature return false (stated for the non-empty secrets).
C7_ChangedSignatureRejected ==
    (/\ Called("verifyVenmailSignature") /\ ~Falsy(libArgs.secret)
     /\ OneCharacterChanged(libArgs.signature, ExpectedSignature))
        => libResult = Return(FALSE)

\* a non-empty signature string holding a character that is no hex digit
Malformed(sig) ==
    sig.type = "string" /\ \E i \in 1..Len(sig.val) : HexVal(sig.val[i]) < 0

\* C8: for a non-empty secret, a signature that cannot be decoded as hex
\* makes verifyVenmailSignature return false, without an error.
C8_MalformedSignatureRejected ==
    (/\ Called("verifyVenmailSignature") /\ ~Falsy(libArgs.secret)
     /\ libArgs.encoding = "hex" /\ Malformed(libArgs.signature))
        => libResult = Return(FALSE)

\* C9: verifyVenmailSignature and verifySharedSecretHeader called with an
\* empty secret raise their configuration error, whatever the other arguments.
C9_EmptySecretRaises ==
    /\ (Called("verifyVenmailSignature") /\ Falsy(libArgs.secret))
          => libResult = Throw("Venmail signature validation requires a secret")
    /\ (Called("verifySharedSecretHeader") /\ Falsy(libArgs.secret))
          => libResult = Throw("Missing expected secret for header validation")

\* verifyVenmailSignature was called with an empty secret and an empty
\* signature and raised
C9_Witness ==
    /\ Called("verifyVenmailSignature") /\ Falsy(libArgs.secret)
    /\ Falsy(libArgs.signature) /\ libResult.kind = "throw"

\* C10 as stated: verifyVenmailSignature called with an empty signature
\* returns false, on every call.
C10_AsStated ==
    (Called("verifyVenmailSignature") /\ Falsy(libArgs.signature))
        => libResult = Return(FALSE)

\* C10 amended: verifyVenmailSignature called with a non-empty secret and an
\* empty or absent signature returns false and does not raise.
C10_EmptySignatureRejected ==
    (Called("verifyVenmailSignature") /\ ~Falsy(libArgs.secret) /\ Falsy(libArgs.signature))
        => libResult = Return(FALSE)

C10_Witness ==
    /\ Called("verifyVenmailSignature") /\ ~Falsy(libArgs.secret)
    /\ libArgs.signature = Str(<<>>) /\ libResult = Return(FALSE)


\* C11: for a non-empty secret, verifySharedSecretHeader returns true when
\* provided is the same string as the secret and false, without raising, for
\* every other provided value: null, absent, empty, different, longer.
C11_SharedSecretEquality ==
    (Called("verifySharedSecretHeader") /\ ~Falsy(libArgs.secret))
        => libResult = Return(libArgs.provided = libArgs.secret)

\* the secret followed by "x" was refused
C11_Witness ==
    /\ Called("verifySharedSecretHeader") /\ ~Falsy(libArgs.secret)
    /\ libArgs.provided = Str(libArgs.secret.val \o <<120>>)
    /\ libResult = Return(FALSE)


-----------------------------------------------------------------------------
(* Properties of the classifier and the normalizer (checked under SpecLib) *)

\* the payload of the call has a truthy member k
Has(k) == Truthy(Prop(libArgs.payload, k))

\* the shapes in their order of precedence, each with whether the payload of
\* the call matches it
KindRules ==
    << <<"integration", Prop(libArgs.payload, KeyEventType).type = "string">>,
       <<"form", Has(KeyFormId) /\ Has(KeyEvents)>>,
       <<"bounce", Has(KeyOriginalMessage) /\ Has(KeyBounce)>>,
       <<"status", Has(KeyStatus) /\ Has(KeyMessage)>>,
       <<"mail", Has(KeyRcptTo) /\ Has(KeyMessageId)>> >>

FirstMatchingKind ==
    LET matching == {i \in 1..Len(KindRules) : KindRules[i][2]}
    IN  IF ~Truthy(libArgs.payload) \/ matching = {} THEN "unknown"
        ELSE KindRules[CHOOSE i \in matching : \A j \in matching : i <= j][1]

\* C12: detectVenmailWebhookKind returns the kind of the first matching rule
\* in the order integration, form, bounce, status, mail, and unknown when no
\* rule matches or the payload is absent; a string event_type gives
\* integration whatever else the payload holds.
C12_FirstMatchingRule ==
    Called("detectVenmailWebhookKind") =>
        /\ libResult.kind = "return"
        /\ libResult.value.kind = FirstMatchingKind
        /\ (Truthy(libArgs.payload) /\ Prop(libArgs.payload, KeyEventType).type = "string")
              => libResult.value = [kind |-> "integration"]

\* a payload with a string event_type and the members of every other shape
\* was classified as integration
C12_Witness ==
    /\ Called("detectVenmailWebhookKind")
    /\ Prop(libArgs.payload, KeyEventType).type = "string"
    /\ Has(KeyFormId) /\ Has(KeyEvents) /\ Has(KeyOriginalMessage) /\ Has(KeyBounce)
    /\ Has(KeyStatus) /\ Has(KeyMessage) /\ Has(KeyRcptTo) /\ Has(KeyMessageId)
    /\ libResult.value.kind = "integration"

\* C13: for a payload classified as bounce or status, isCampaignEvent is true
\* if and only if the returned campaignId is not null.
C13_CampaignFlagIffId ==
    (Called("detectVenmailWebhookKind") /\ libResult.value.kind \in {"bounce", "status"})
        => (libResult.value.isCampaignEvent <=> libResult.value.campaignId # JNull)

\* the campaign id a tag stands for: all of the tag after "campaign:", null
\* for any other tag and for no tag
CampaignIdOf(tag) ==
    IF tag.type = "string" /\ StartsWith(tag.val, CampaignPrefix)
    THEN Str(SubSeq(tag.val, Len(CampaignPrefix) + 1, Len(tag.val)))
    ELSE JNull

TagIn(k) == Prop(Prop(libArgs.payload, k), KeyTag)

\* C14: the campaign id detectVenmailWebhookKind and normalizeDeliveryEvent
\* extract from a tag "campaign:" + id is the whole of the tag after its first
\* colon, also when the id holds colons; it is null for any other tag and for
\* no tag.
C14_CampaignIdIsRestOfTag ==
    /\ (Called("detectVenmailWebhookKind") /\ libResult.value.kind = "bounce")
          => libResult.value.campaignId = CampaignIdOf(TagIn(KeyOriginalMessage))
    /\ (Called("detectVenmailWebhookKind") /\ libResult.value.kind = "status")
          => libResult.value.campaignId = CampaignIdOf(TagIn(KeyMessage))
    /\ (Called("normalizeDeliveryEvent") /\ Has(KeyOriginalMessage) /\ Has(KeyBounce))
          => libResult.value.campaignId = CampaignIdOf(TagIn(KeyOriginalMessage))
    /\ (/\ Called("normalizeDeliveryEvent") /\ ~(Has(KeyOriginalMessage) /\ Has(KeyBounce))
        /\ Has(KeyStatus) /\ Has(KeyMessage))
          => libResult.value.campaignId = CampaignIdOf(TagIn(KeyMessage))

\* C15: normalizeDeliveryEvent returns for every input; a payload with
\* original_message and bounce gets status "MessageBounced", also when it has
\* status and message; otherwise a payload with status and message gets its
\* own status; any other input gets status "Unknown", no messageId, no
\* recipient and a null campaignId.
C15_NormalizedStatus ==
    Called("normalizeDeliveryEvent") =>
        /\ libResult.kind = "return"
        /\ libResult.value.payload = libArgs.payload
        /\ (Has(KeyOriginalMessage) /\ Has(KeyBounce))
              => libResult.value.status = MessageBounced
        /\ (~(Has(KeyOriginalMessage) /\ Has(KeyBounce)) /\ Has(KeyStatus) /\ Has(KeyMessage))
              => libResult.value.status = Prop(libArgs.payload, KeyStatus)
        /\ (~(Has(KeyOriginalMessage) /\ Has(KeyBounce)) /\ ~(Has(KeyStatus) /\ Has(KeyMessage)))
              => /\ libResult.value.status = UnknownStatus
                 /\ libResult.value.messageId = Undefined
                 /\ libResult.value.recipient = Undefined
                 /\ libResult.value.campaignId = JNull

\* a payload with both the bounce and the status shape was normalized as a
\* bounce
C15_Witness ==
    /\ Called("normalizeDeliveryEvent")
    /\ Has(KeyOriginalMessage) /\ Has(KeyBounce) /\ Has(KeyStatus) /\ Has(KeyMessage)
    /\ libResult.value.status = MessageBounced


-----------------------------------------------------------------------------
(* Properties of the handler's options (checked under Spec) *)

ConfigurationError == "Venmail signature validation requires a secret"

\* C16: with allowUnsigned true, whatever the signature header and the
\* secret, a handled request is never answered 401, the configuration error
\* is not raised, and onEvent has been invoked when the body decodes as JSON.
C16_UnsignedAlwaysHandled ==
    \A r \in DOMAIN pc :
        (opts.allowUnsigned /\ pc[r] # "idle") =>
            /\ \A i \in 1..Len(writes[r]) : writes[r][i] # Unauthorized
            /\ \A i \in 1..Len(nexts[r]) : nexts[r][i] # ConfigurationError
            /\ ~DecodeFails(r) => Len(calls[r]) = 1


\* C19: venmailIntegrationWebhook raises at construction for a missing
\* onEvent only, not for an empty secret; with an empty secret and
\* allowUnsigned false every handled request, whatever its signature and
\* body, is forwarded to next with the configuration error: the adaptor
\* answers neither 401 nor 200 and onEvent is not invoked.
C19_EmptySecretForwarded ==
    /\ \A o \in CandidateOptions :
            Construct(o).kind = "throw" <=> o.onEvent.type # "function"
    /\ \A r \in DOMAIN pc :
            (Falsy(opts.secret) /\ ~opts.allowUnsigned /\ pc[r] # "idle") =>
                /\ pc[r] = "done"
                /\ nexts[r] = <<ConfigurationError>>
                /\ writes[r] = <<>>
                /\ calls[r] = <<>>

\* a middleware built with an empty secret has forwarded a signed request
\* with a JSON body
C19_Witness ==
    \E r \in DOMAIN pc :
        /\ Construct(opts) = Return(opts)
        /\ Falsy(opts.secret) /\ ~opts.allowUnsigned
        /\ Get(req[r], opts.signatureHeader) = Str(SignatureOf(SenderSecret, req[r].wire))
        /\ ~DecodeFails(r)
        /\ nexts[r] = <<ConfigurationError>>

-----------------------------------------------------------------------------
(* Properties of the extraction of the raw bytes (checked under SpecLib) *)

\* the bytes of a rawBody field, given as bytes or as text
RawBodyFieldBytes(rb) == IF IsBuffer(rb) THEN rb.val ELSE Utf8(rb.val)

\* the precedence as C18 words it
StatedRawBytes(rq) ==
    IF IsBuffer(rq.body) THEN rq.body.val
    ELSE IF IsBuffer(rq.rawBody) \/ IsString(rq.rawBody) THEN RawBodyFieldBytes(rq.rawBody)
    ELSE IF IsString(rq.body) THEN Utf8(rq.body.val)
    ELSE IF rq.body.type = "object" THEN Utf8(JSONstringify(rq.body))
    ELSE <<123, 125>>

\* C18: without a rawBodyExtractor the raw bytes are a Buffer body, else the
\* rawBody field, else a string body UTF-8 encoded, else the JSON
\* re-serialization of an object body, else "{}"; with a rawBodyExtractor
\* they are its result.
C18_RawBodyPrecedence ==
    Called("resolveRawBody") =>
        libResult = Return(Buf(IF libArgs.rawBodyExtractor.type = "function"
                               THEN ExtractRawBody(libArgs.req)
                               ELSE StatedRawBytes(libArgs.req)))


-----------------------------------------------------------------------------
(* Properties of concurrent requests (checked under SpecConcurrent) *)

\* what request r has got so far were it handled alone: by its own request,
\* the state of its own onEvent and the responses its own onEvent wrote
Alone(r) ==
    LET out   == BeforeOnEvent(opts, req[r])
        after == AfterOnEvent(opts, hstate[r], HandlerWrites(r) > 0)
        ended == pc[r] = "done" /\ out.kind = "onEvent"
    IN  [calls  |-> IF pc[r] # "idle" /\ out.kind = "onEvent" THEN <<out.event>> ELSE <<>>,
         adaptor |-> IF pc[r] # "idle" /\ out.kind = "respond" THEN <<out.response>>
                     ELSE IF ended /\ after.kind = "respond" THEN <<after.response>>
                     ELSE <<>>,
         nexts  |-> IF pc[r] # "idle" /\ out.kind = "next" THEN <<out.error>>
                    ELSE IF ended /\ after.kind = "next" THEN <<after.error>>
                    ELSE <<>>]

\* C17: when the handlers of several requests of one middleware interleave
\* at the awaits of onEvent, each request's outcome (401, 200 or an error
\* forwarded to next) and the event passed to its onEvent are those of the
\* request handled alone; the signature and the body of its event are its
\* own.
C17_RequestsIndependent ==
    \A r \in DOMAIN pc :
        /\ calls[r] = Alone(r).calls
        /\ AdaptorWrites(r) = Alone(r).adaptor
        /\ nexts[r] = Alone(r).nexts
        /\ \A i \in 1..Len(calls[r]) :
              /\ calls[r][i].headers.signature = Get(req[r], opts.signatureHeader)
              /\ calls[r][i].body = JSONparse(Utf8Decode(req[r].wire)).value

\* two requests with different events were in onEvent at the same time; the
\* onEvent of one answered by itself, and the other got the default response
C17_Witness ==
    \E r, q \in DOMAIN pc :
        /\ r # q /\ pc[r] = "done" /\ pc[q] = "awaiting"
        /\ calls[r] # <<>> /\ calls[q] # <<>> /\ calls[r] # calls[q]
        /\ HandlerWrites(q) = 1 /\ hstate[r] = "fulfilled"
        /\ writes[r] = <<Success>>

=============================================================================
